---- MODULE Spec2Model ----
(***************************************************************************)
(* Model of llrt's fetch primitive (src/http/fetch.rs): module             *)
(* initialisation (policy lists, client, registration of the `fetch`      *)
(* global), the synchronous argument resolution of one fetch call, and the *)
(* asynchronous block that validates, gates and dispatches the request.    *)
(***************************************************************************)
EXTENDS Integers, Sequences, FiniteSets, TLC

VARIABLES
    allowList,   \* HTTP_ALLOW_LIST : Option<Result<Vec<Uri>, InvalidUri>>
    denyList,    \* HTTP_DENY_LIST  : Option<Result<Vec<Uri>, InvalidUri>>
    initState,   \* "start" | "ok" | "failed": where init(ctx, globals) stands
    initError,   \* None, or Some(error) returned by init
    clients,     \* number of HttpClient values built by init
    registered,  \* whether globals holds "fetch"
    inv,         \* the fetch invocations, by call id
    clock        \* the monotonic clock Instant::now() reads

vars == <<allowList, denyList, initState, initError, clients, registered, inv, clock>>

\* Number of fetch calls the script makes.
MaxCalls == 2

Calls == 1..MaxCalls

\* How far the clock runs.
MaxTime == 3

----------------------------------------------------------------------------
\* Option and Result values

None == [tag |-> "None"]

Some(v) == [tag |-> "Some", val |-> v]

Ok(v) == [tag |-> "Ok", val |-> v]

Err(e) == [tag |-> "Err", err |-> e]

IsSome(o) == o.tag = "Some"

IsOk(r) == r.tag = "Ok"

IsErr(r) == r.tag = "Err"

\* An error value: the exception class (or failure kind) and the pieces of
\* its message in the order format! joins them.
Error(kind, msg) == [kind |-> kind, msg |-> msg]

----------------------------------------------------------------------------
\* Script values handed to fetch

\* URL texts: two that parse and are told apart by the policy lists, one
\* that does not parse.
UrlA == "https://a.test/x"

UrlB == "http://b.test/"

UrlBad == "not a uri"

UrlTexts == {UrlA, UrlB, UrlBad}

ValidMethodTexts == {"GET", "POST", "PUT", "CONNECT", "HEAD", "PATCH", "DELETE"}

OtherMethodTexts == {"get", "OPTIONS", ""}

MethodTexts == ValidMethodTexts \cup OtherMethodTexts

\* A property slot of an options object as a read sees it:
\*   absent      the property is missing, undefined or null
\*   unreadable  the read fails (throwing getter, value of the wrong type)
\*   value       the property holds val
Absent == [slot |-> "absent"]

Unreadable == [slot |-> "unreadable"]

Holds(v) == [slot |-> "value", val |-> v]

\* Header and body values of the script: what the collaborators accept
\* (good) and what they reject.
GoodHeaders == [good |-> TRUE, pairs |-> <<<<"x-a", "1">>, <<"user-agent", "custom">>>>]

\* Accepted by the header collection, refused by the request builder.
BadNameHeaders == [good |-> TRUE, pairs |-> <<<<"bad name", "1">>>>]

MalformedHeaders == [good |-> FALSE, pairs |-> <<>>]

GoodBody == [good |-> TRUE, bytes |-> <<104, 105>>]

UnconvertibleBody == [good |-> FALSE, bytes |-> <<>>]

UrlSlots == {Absent, Unreadable} \cup {Holds(u) : u \in UrlTexts}

MethodSlots == {Absent, Unreadable} \cup {Holds(m) : m \in MethodTexts}

HeaderSlots == {Absent, Unreadable, Holds(GoodHeaders), Holds(BadNameHeaders), Holds(MalformedHeaders)}

BodySlots == {Absent, Unreadable, Holds(GoodBody), Holds(UnconvertibleBody)}

JsObject(u, m, h, b) == [tag |-> "object", url |-> u, method |-> m, headers |-> h, body |-> b]

\* conv: whether the engine can convert the string to a Rust String.
JsString(text, conv) == [tag |-> "string", text |-> text, conv |-> conv]

JsNumber == [tag |-> "number"]

JsUndefined == [tag |-> "undefined"]

\* Opt<Value> of a call that passes no second argument.
Missing == [tag |-> "missing"]

Objects == {JsObject(u, m, h, b) : u \in UrlSlots, m \in MethodSlots, h \in HeaderSlots, b \in BodySlots}

Strings == {JsString(t, TRUE) : t \in UrlTexts} \cup {JsString(UrlA, FALSE)}

Values == Objects \cup Strings \cup {JsNumber, JsUndefined}

\* A few values for the argument that is not varied exhaustively.
FewValues ==
    { JsString(UrlA, TRUE), JsString(UrlBad, TRUE), JsString(UrlA, FALSE), JsNumber,
      JsObject(Holds(UrlB), Absent, Absent, Absent),
      JsObject(Absent, Holds("PUT"), Holds(GoodHeaders), Holds(GoodBody)),
      JsObject(Holds(UrlB), Holds("bogus"), Holds(MalformedHeaders), Holds(UnconvertibleBody)) }

\* <<resource, args>> pairs: every value in one position against a few in
\* the other.
Inputs ==
    (Values \X (FewValues \cup {Missing})) \cup (FewValues \X (Values \cup {Missing}))

\* The pairs used when calls run concurrently.
FewInputs ==
    { <<JsString(UrlA, TRUE), Missing>>,
      <<JsString(UrlB, TRUE), JsObject(Absent, Holds("CONNECT"), Absent, Holds(GoodBody))>>,
      <<JsString(UrlBad, TRUE), Missing>>,
      <<JsNumber, JsNumber>>,
      <<JsObject(Absent, Holds("POST"), Absent, Absent), Missing>>,
      <<JsObject(Holds(UrlA), Holds("get"), Absent, Absent), JsObject(Holds(UrlB), Absent, Absent, Absent)>>,
      <<JsObject(Holds(UrlB), Holds("DELETE"), Absent, Absent), Missing>>,
      <<JsObject(Holds(UrlA), Absent, Holds(MalformedHeaders), Holds(UnconvertibleBody)), Missing>>,
      <<JsString(UrlA, TRUE), JsObject(Absent, Holds("PATCH"), Holds(GoodHeaders), Holds(UnconvertibleBody))>>,
      <<JsString(UrlA, TRUE), JsObject(Holds(UrlB), Holds("PUT"), Holds(GoodHeaders), Holds(GoodBody))>> }

----------------------------------------------------------------------------
\* Collaborators of the fetch closure

\* Value::get::<String>() on a string value.
StringGet(v) ==
    IF v.conv THEN Ok(v.text) ELSE Err(Error("FromJsError", <<"string">>))

\* A typed property read, Result<Option<T>>: Ok(None) for an absent
\* property, the read's failure otherwise kept as Err.
PropertyRead(obj, key) ==
    LET s == obj[key]
    IN  CASE s.slot = "absent" -> Ok(None)
          [] s.slot = "unreadable" -> Err(Error("PropertyError", <<key>>))
          [] OTHER -> Ok(Some(s.val))

\* ObjectExt::get_optional.
GetOptional(obj, key) == PropertyRead(obj, key)

\* Headers::from_value: the pairs in insertion order, or the failure.
HeadersFromValue(v) ==
    IF v.good THEN Ok(v.pairs) ELSE Err(Error("HeadersError", <<"invalid headers">>))

\* get_bytes: the bytes of a body value, or the failure.
GetBytes(v) ==
    IF v.good THEN Ok(v.bytes) ELSE Err(Error("BytesError", <<"invalid body">>))

\* hyper::Method and its to_string().
HyperMethod(name) == [hyper |-> name]

MethodToString(m) == m.hyper

UriA == [scheme |-> "https", authority |-> "a.test", path |-> "/x"]

UriB == [scheme |-> "http", authority |-> "b.test", path |-> "/"]

\* str::parse::<Uri>() followed by or_throw.
ParseUri(text) ==
    CASE text = UrlA -> Ok(UriA)
      [] text = UrlB -> Ok(UriB)
      [] OTHER -> Err(Error("Error", <<"invalid uri character">>))

\* Whether a parsed policy list holds a pattern the URI matches.
UrlMatch(list, uri) == IsSome(list) /\ IsOk(list.val) /\ uri \in list.val.val

\* security::ensure_url_access: deny first, then the allow list.
EnsureUrlAccess(allow, deny, uri) ==
    IF IsSome(deny) /\ UrlMatch(deny, uri)
    THEN Err(Error("AccessError", <<"URL denied: ", uri.authority>>))
    ELSE IF IsSome(allow) /\ ~UrlMatch(allow, uri)
         THEN Err(Error("AccessError", <<"URL not allowed: ", uri.authority>>))
         ELSE Ok(TRUE)

EmptyBody == <<>>

\* format!("llrt {}", VERSION)
UserAgent == "llrt VERSION"

RequestBuilderNoAccept(method, uri) ==
    [method |-> method, uri |-> uri, headers |-> <<<<"user-agent", UserAgent>>>>]

\* Request::builder() with the method, the URI and the two fixed headers.
RequestBuilder(method, uri) ==
    [method |-> method, uri |-> uri,
     headers |-> <<<<"user-agent", UserAgent>>, <<"accept", "*/*">>>>]

ApplyHeadersFirst(req, pairs) == [req EXCEPT !.headers = pairs \o @]

\* req.header(key, value) for every pair of the header collection, in order.
ApplyHeaders(req, pairs) == [req EXCEPT !.headers = @ \o pairs]

HeaderNameOk(name) == name # "bad name"

\* req.body(body).or_throw: the builder reports a refused header here.
RequestBody(req, body) ==
    IF \A k \in 1..Len(req.headers) : HeaderNameOk(req.headers[k][1])
    THEN Ok([method |-> req.method, uri |-> req.uri, headers |-> req.headers, body |-> body])
    ELSE Err(Error("Error", <<"invalid HTTP header name">>))

----------------------------------------------------------------------------
\* The fetch closure: argument resolution

GetUrlOptionsConvertsAny(resource) ==
    IF resource.tag = "object" THEN <<None, Some(resource)>>
    ELSE IF resource.tag = "string" THEN <<Some(StringGet(resource)), None>>
    ELSE <<Some(Err(Error("FromJsError", <<"string">>))), None>>

GetUrlOptions(resource) ==
    IF resource.tag = "string" THEN <<Some(StringGet(resource)), None>>
    ELSE IF resource.tag = "object" THEN <<None, Some(resource)>>
    ELSE <<None, None>>

ArgsOptionsDropped(args) == None

\* options: the second argument when it is there and is an object.
ArgsOptions(args) == IF args.tag = "object" THEN Some(args) ELSE None

\* Option::or.
OptionOr(a, b) == IF IsSome(a) THEN a ELSE b

EffectiveOptionsSecondFirst(resource_options, options) == OptionOr(options, resource_options)

\* let options = resource_options.or(options)
EffectiveOptions(resource_options, options) == OptionOr(resource_options, options)

\* Result::unwrap_or_default on a Result<Option<T>>.
UnwrapOrDefault(r) == IF IsOk(r) THEN r.val ELSE None

ResolveUrlKeepsCandidate(url, opts) ==
    IF IsSome(url) THEN url
    ELSE LET url_opt == UnwrapOrDefault(PropertyRead(opts, "url"))
         IN  IF IsSome(url_opt) THEN Some(Ok(url_opt.val)) ELSE url

\* url_opt and the override of the candidate.
ResolveUrl(url, opts) ==
    LET url_opt == UnwrapOrDefault(PropertyRead(opts, "url"))
    IN  IF IsSome(url_opt) THEN Some(Ok(url_opt.val)) ELSE url

\* headers = opts.get_optional("headers").transpose().map(and_then from_value)
ResolveHeaders(opts) ==
    LET r == GetOptional(opts, "headers")
    IN  IF IsErr(r) THEN Some(r)
        ELSE IF IsSome(r.val) THEN Some(HeadersFromValue(r.val.val))
        ELSE None

ResolveBodyPropagates(body, opts) ==
    LET r == PropertyRead(opts, "body")
    IN  IF IsErr(r) THEN r
        ELSE IF IsSome(r.val) THEN GetBytes(r.val.val) ELSE body

\* body_opt and the conversion of a present body.
ResolveBody(body, opts) ==
    LET body_opt == UnwrapOrDefault(PropertyRead(opts, "body"))
    IN  IF IsSome(body_opt) THEN GetBytes(body_opt.val) ELSE body

\* Option::unwrap_or.
UnwrapOr(o, d) == IF IsSome(o) THEN o.val ELSE d

MatchMethodAnyCase(m) ==
    IF ~IsSome(m) \/ m.val = "get" THEN Ok(HyperMethod("GET"))
    ELSE IF m.val \in ValidMethodTexts THEN Ok(HyperMethod(m.val))
    ELSE Err(Error("TypeError", <<"Invalid HTTP method: ", UnwrapOr(m, "{empty}")>>))

\* The match on m.as_deref().
MatchMethod(m) ==
    IF ~IsSome(m) THEN Ok(HyperMethod("GET"))
    ELSE IF m.val \in ValidMethodTexts THEN Ok(HyperMethod(m.val))
    ELSE Err(Error("TypeError", <<"Invalid HTTP method: ", UnwrapOr(m, "{empty}")>>))

\* method = method_opts.and_then(...)
ResolveMethod(opts) ==
    LET method_opts == GetOptional(opts, "method")
    IN  IF IsErr(method_opts) THEN method_opts ELSE MatchMethod(method_opts.val)

\* The values the closure hands to its async block.
Resolve(resource, args) ==
    LET uo == GetUrlOptions(resource)
        options == EffectiveOptions(uo[2], ArgsOptions(args))
        method0 == Ok(HyperMethod("GET"))
        body0 == Ok(EmptyBody)
    IN  IF IsSome(options)
        THEN [url |-> ResolveUrl(uo[1], options.val),
              method |-> ResolveMethod(options.val),
              headers |-> ResolveHeaders(options.val),
              body |-> ResolveBody(body0, options.val)]
        ELSE [url |-> uo[1], method |-> method0, headers |-> None, body |-> body0]

----------------------------------------------------------------------------
\* One fetch invocation: the closure's captured values, the locals of its
\* async block, the calls it made on its collaborators (log) and its result.

NoUri == [scheme |-> "", authority |-> "", path |-> ""]

NoRequest == [method |-> HyperMethod(""), uri |-> NoUri, headers |-> <<>>, body |-> EmptyBody]

IdleInv ==
    [pc |-> "idle", resource |-> JsUndefined, args |-> Missing, client |-> 0,
     url |-> None, method |-> Ok(HyperMethod("GET")), headers |-> None, body |-> Ok(EmptyBody),
     url_string |-> "", uri |-> NoUri, method_string |-> "", req |-> NoRequest,
     log |-> <<>>, outcome |-> None, called |-> 0, start |-> 0]

\* let start = Instant::now()
StartTimer(c, now) == [c EXCEPT !.start = now]

FetchClosureEager(c, resource, args, client) ==
    LET r == Resolve(resource, args)
        d == [c EXCEPT !.pc = "resolved", !.resource = resource, !.args = args, !.client = client,
                       !.url = r.url, !.method = r.method, !.headers = r.headers, !.body = r.body]
    IN  IF IsSome(r.headers) /\ IsErr(r.headers.val)
        THEN [d EXCEPT !.pc = "done", !.outcome = Some(r.headers.val)]
        ELSE IF IsErr(r.body) THEN [d EXCEPT !.pc = "done", !.outcome = Some(r.body)]
        ELSE d

\* The closure body up to the async block, for the call's arguments.
FetchClosure(c, resource, args, client) ==
    LET r == Resolve(resource, args)
    IN  [c EXCEPT !.pc = "resolved", !.resource = resource, !.args = args, !.client = client,
                  !.url = r.url, !.method = r.method, !.headers = r.headers, !.body = r.body]

\* `?` on an Err: the block ends with that error.
Throw(c, e) == [c EXCEPT !.pc = "done", !.outcome = Some(Err(e))]

Ended(c) == c.pc = "done"

StepUrlDefaultsEmpty(c) ==
    IF Ended(c) THEN c
    ELSE LET url == IF IsSome(c.url) THEN c.url.val ELSE Ok("")
         IN  IF IsErr(url) THEN Throw(c, url.err) ELSE [c EXCEPT !.url_string = url.val]

\* let url = url.unwrap_or_else(|| Err(Missing required url))?
StepUrl(c) ==
    IF Ended(c) THEN c
    ELSE LET url == IF IsSome(c.url) THEN c.url.val
                    ELSE Err(Error("ReferenceError", <<"Missing required url">>))
         IN  IF IsErr(url) THEN Throw(c, url.err) ELSE [c EXCEPT !.url_string = url.val]

\* let uri: Uri = url.parse().or_throw(&ctx)?
StepParse(c) ==
    IF Ended(c) THEN c
    ELSE LET uri == ParseUri(c.url_string)
             logged == [c EXCEPT !.log = Append(@, [ev |-> "parse", text |-> c.url_string])]
         IN  IF IsErr(uri) THEN Throw(logged, uri.err) ELSE [logged EXCEPT !.uri = uri.val]

\* let method = method?; let method_string = method.to_string()
StepMethod(c) ==
    IF Ended(c) THEN c
    ELSE IF IsErr(c.method) THEN Throw(c, c.method.err)
    ELSE [c EXCEPT !.method_string = MethodToString(c.method.val)]

StepGateSkipsConnect(c, allow, deny) ==
    IF Ended(c) \/ c.method_string = "CONNECT" THEN c
    ELSE LET gate == EnsureUrlAccess(allow, deny, c.uri)
             logged == [c EXCEPT !.log = Append(@, [ev |-> "gate", uri |-> c.uri])]
         IN  IF IsErr(gate) THEN Throw(logged, gate.err) ELSE logged

\* ensure_url_access(&ctx, &uri)?
StepGate(c, allow, deny) ==
    IF Ended(c) THEN c
    ELSE LET gate == EnsureUrlAccess(allow, deny, c.uri)
             logged == [c EXCEPT !.log = Append(@, [ev |-> "gate", uri |-> c.uri])]
         IN  IF IsErr(gate) THEN Throw(logged, gate.err) ELSE logged

\* Request::builder().method(method).uri(uri).header(..).header(..)
StepBuilder(c) ==
    IF Ended(c) THEN c ELSE [c EXCEPT !.req = RequestBuilder(c.method.val, c.uri)]

\* if let Some(headers) = headers { for (key, value) in headers?.iter() {..} }
StepHeaders(c) ==
    IF Ended(c) \/ ~IsSome(c.headers) THEN c
    ELSE IF IsErr(c.headers.val) THEN Throw(c, c.headers.val.err)
    ELSE [c EXCEPT !.req = ApplyHeaders(@, c.headers.val.val)]

\* let body = body?; let req = req.body(body).or_throw(&ctx)?
StepBody(c) ==
    IF Ended(c) THEN c
    ELSE IF IsErr(c.body) THEN Throw(c, c.body.err)
    ELSE LET req == RequestBody(c.req, c.body.val)
         IN  IF IsErr(req) THEN Throw(c, req.err) ELSE [c EXCEPT !.req = req.val]

\* client.request(req): the request leaves on the invocation's client clone
\* and the block suspends.
StepRequest(c) ==
    IF Ended(c) THEN c
    ELSE [c EXCEPT !.pc = "inflight",
                   !.log = Append(@, [ev |-> "request", req |-> c.req, client |-> c.client])]

AsyncBlockGatesLate(c, allow, deny) ==
    StepGate(StepRequest(StepBody(StepHeaders(StepBuilder(
        StepMethod(StepParse(StepUrl(c))))))), allow, deny)

AsyncBlockGatesBeforeMethod(c, allow, deny) ==
    StepRequest(StepBody(StepHeaders(StepBuilder(
        StepMethod(StepGate(StepParse(StepUrl(c)), allow, deny))))))

\* The async block from its start to its one suspension point.
AsyncBlock(c, allow, deny) ==
    StepRequest(StepBody(StepHeaders(StepBuilder(
        StepGate(StepMethod(StepParse(StepUrl(c))), allow, deny)))))

\* What the awaited client.request can yield.
Exchanges == {"response", "transport error"}

ResumeRetries(c, exchange) ==
    IF exchange = "response"
    THEN [c EXCEPT !.pc = "done",
                   !.log = Append(@, [ev |-> "response"]),
                   !.outcome = Some(Ok([method |-> c.method_string, url |-> c.url_string,
                                        start |-> c.start, raw |-> exchange]))]
    ELSE [c EXCEPT !.log = Append(Append(@, [ev |-> "failure"]),
                                  [ev |-> "request", req |-> c.req, client |-> c.client])]

ResumeReportsPrimaryText(c, exchange) ==
    IF exchange = "response"
    THEN [c EXCEPT !.pc = "done",
                   !.log = Append(@, [ev |-> "response"]),
                   !.outcome = Some(Ok([method |-> c.method_string,
                                        url |-> IF c.resource.tag = "string" THEN c.resource.text
                                                ELSE c.url_string,
                                        start |-> c.start, raw |-> exchange]))]
    ELSE Throw([c EXCEPT !.log = Append(@, [ev |-> "failure"])],
               Error("Error", <<"transport: ", exchange>>))

\* .await.or_throw(&ctx)? and the Response built from the raw response.
Resume(c, exchange) ==
    IF exchange = "response"
    THEN [c EXCEPT !.pc = "done",
                   !.log = Append(@, [ev |-> "response"]),
                   !.outcome = Some(Ok([method |-> c.method_string, url |-> c.url_string,
                                        start |-> c.start, raw |-> exchange]))]
    ELSE Throw([c EXCEPT !.log = Append(@, [ev |-> "failure"])],
               Error("Error", <<"transport: ", exchange>>))

----------------------------------------------------------------------------
\* Module initialisation

\* The InvalidUri texts of the two configuration sources.
AllowParseFailure == "invalid uri character"

DenyParseFailure == "invalid authority"

AllowConfigs == {None, Some(Err(AllowParseFailure)), Some(Ok({UriA})), Some(Ok({UriA, UriB}))}

DenyConfigs == {None, Some(Err(DenyParseFailure)), Some(Ok({UriB}))}

PolicyCheckSkipsAllow(allow, deny) ==
    IF IsSome(deny) /\ IsErr(deny.val)
    THEN Err(Error("ReferenceError",
                   <<"\"LLRT_NET_DENY\" env contains an invalid URI: ", deny.val.err>>))
    ELSE Ok(TRUE)

PolicyCheckSkipsDeny(allow, deny) ==
    IF IsSome(allow) /\ IsErr(allow.val)
    THEN Err(Error("ReferenceError",
                   <<"\"LLRT_NET_ALLOW\" env contains an invalid URI: ", allow.val.err>>))
    ELSE Ok(TRUE)

\* The two checks init makes before it builds anything.
PolicyCheck(allow, deny) ==
    IF IsSome(allow) /\ IsErr(allow.val)
    THEN Err(Error("ReferenceError",
                   <<"\"LLRT_NET_ALLOW\" env contains an invalid URI: ", allow.val.err>>))
    ELSE IF IsSome(deny) /\ IsErr(deny.val)
    THEN Err(Error("ReferenceError",
                   <<"\"LLRT_NET_DENY\" env contains an invalid URI: ", deny.val.err>>))
    ELSE Ok(TRUE)

Init ==
    /\ allowList \in AllowConfigs
    /\ denyList \in DenyConfigs
    /\ initState = "start"
    /\ initError = None
    /\ clients = 0
    /\ registered = FALSE
    /\ inv = [i \in Calls |-> IdleInv]
    /\ clock = 0

\* init(ctx, globals)
InitModule ==
    /\ initState = "start"
    /\ LET check == PolicyCheck(allowList, denyList)
       IN  IF IsErr(check)
           THEN /\ initState' = "failed"
                /\ initError' = Some(check.err)
                /\ UNCHANGED <<clients, registered>>
           ELSE /\ initState' = "ok"
                /\ clients' = clients + 1
                /\ registered' = TRUE
                /\ UNCHANGED initError
    /\ UNCHANGED <<allowList, denyList, inv, clock>>

\* Call ids are taken in order.
NextCall(i) == inv[i].pc = "idle" /\ \A j \in Calls : j < i => inv[j].pc # "idle"

FetchBuildsClient(i, resource, args) ==
    /\ registered
    /\ NextCall(i)
    /\ clients' = clients + 1
    /\ inv' = [inv EXCEPT ![i] =
                  FetchClosure(StartTimer([@ EXCEPT !.called = clock], clock), resource, args, clients + 1)]
    /\ UNCHANGED <<allowList, denyList, initState, initError, registered, clock>>

\* The script calls fetch(resource, args) and the closure runs.
Fetch(i, resource, args) ==
    /\ registered
    /\ NextCall(i)
    /\ inv' = [inv EXCEPT ![i] =
                  FetchClosure(StartTimer([@ EXCEPT !.called = clock], clock), resource, args, clients)]
    /\ UNCHANGED <<allowList, denyList, initState, initError, clients, registered, clock>>

\* The script names fetch after an init that returned before globals.set:
\* the global is not there, the engine reports the unresolved name and no
\* code of the closure runs.
FetchUnregistered(i) ==
    /\ initState = "failed"
    /\ ~registered
    /\ NextCall(i)
    /\ inv' = [inv EXCEPT ![i] = Throw(@, Error("ReferenceError", <<"'fetch' is not defined">>))]
    /\ UNCHANGED <<allowList, denyList, initState, initError, clients, registered, clock>>

\* The runtime polls the invocation's future for the first time.
Poll(i) ==
    /\ inv[i].pc = "resolved"
    /\ inv' = [inv EXCEPT ![i] = AsyncBlock(@, allowList, denyList)]
    /\ UNCHANGED <<allowList, denyList, initState, initError, clients, registered, clock>>

\* The exchange ends and the future is polled to its end.
Complete(i, exchange) ==
    /\ inv[i].pc = "inflight"
    /\ inv' = [inv EXCEPT ![i] = Resume(@, exchange)]
    /\ UNCHANGED <<allowList, denyList, initState, initError, clients, registered, clock>>

FetchSome == \E i \in Calls : NextCall(i) /\ \E a \in FewInputs : Fetch(i, a[1], a[2])

FetchUnregisteredSome == \E i \in Calls : FetchUnregistered(i)

PollSome == \E i \in Calls : Poll(i)

CompleteSome == \E i \in Calls : \E x \in Exchanges : Complete(i, x)

Next == InitModule \/ FetchSome \/ FetchUnregisteredSome \/ PollSome \/ CompleteSome

\* Concurrent calls, each with one of a few argument pairs.
Spec == Init /\ [][Next]_vars

FetchOne == registered /\ NextCall(1) /\ \E a \in Inputs : Fetch(1, a[1], a[2])

NextArgs == InitModule \/ FetchOne \/ FetchUnregistered(1) \/ Poll(1) \/ (\E x \in Exchanges : Complete(1, x))

\* One call, with every argument pair of Inputs.
SpecArgs == Init /\ [][NextArgs]_vars

\* Time passes.
Tick ==
    /\ clock < MaxTime
    /\ clock' = clock + 1
    /\ UNCHANGED <<allowList, denyList, initState, initError, clients, registered, inv>>

FetchTimed == registered /\ NextCall(1) /\ \E a \in FewInputs : Fetch(1, a[1], a[2])

NextTime == InitModule \/ FetchTimed \/ Poll(1) \/ (\E x \in Exchanges : Complete(1, x)) \/ Tick

\* One call with one of a few argument pairs, while the clock runs.
SpecTime == Init /\ [][NextTime]_vars

----------------------------------------------------------------------------
\* Vocabulary of the properties

\* The invocations whose closure ran.
Ran == {i \in Calls : inv[i].client # 0}

Finished == {i \in Ran : inv[i].pc = "done"}

Events(c, kind) == {k \in 1..Len(c.log) : c.log[k].ev = kind}

Failed(c) == IsSome(c.outcome) /\ IsErr(c.outcome.val)

Succeeded(c) == IsSome(c.outcome) /\ IsOk(c.outcome.val)

FailedWith(c, e) == Failed(c) /\ c.outcome.val.err = e

MissingUrlError == Error("ReferenceError", <<"Missing required url">>)

InvalidMethodError(text) == Error("TypeError", <<"Invalid HTTP method: ", text>>)

HoldsText(slot) == slot.slot = "value"

\* The options object the resolver reads, if any, as the call's arguments
\* determine it: the primary when it is an object, else an object secondary.
OptionsOf(c) ==
    IF c.resource.tag = "object" THEN Some(c.resource)
    ELSE IF c.args.tag = "object" THEN Some(c.args)
    ELSE None

\* What an options object's slots resolve to when each field is well formed
\* or absent.
PlainMethod(obj) ==
    obj.method.slot = "absent" \/ (HoldsText(obj.method) /\ obj.method.val \in ValidMethodTexts)

MethodFrom(obj) ==
    IF HoldsText(obj.method) THEN Ok(HyperMethod(obj.method.val)) ELSE Ok(HyperMethod("GET"))

PlainHeaders(obj) ==
    obj.headers.slot = "absent" \/ (HoldsText(obj.headers) /\ obj.headers.val.good)

HeadersFrom(obj) ==
    IF HoldsText(obj.headers) THEN Some(Ok(obj.headers.val.pairs)) ELSE None

PlainBody(obj) ==
    obj.body.slot = "absent" \/ (HoldsText(obj.body) /\ obj.body.val.good)

BodyFrom(obj) ==
    IF HoldsText(obj.body) THEN Ok(obj.body.val.bytes) ELSE Ok(EmptyBody)

FieldsFrom(c, obj) ==
    /\ PlainMethod(obj) => c.method = MethodFrom(obj)
    /\ PlainHeaders(obj) => c.headers = HeadersFrom(obj)
    /\ PlainBody(obj) => c.body = BodyFrom(obj)

----------------------------------------------------------------------------
\* C1: when the primary argument is an object, the resolved URL, method,
\* headers and body are those of the primary object and are the same as if
\* no secondary argument had been given; the URL is the primary's `url`
\* text when it holds one and there is no URL otherwise, whatever `url` the
\* secondary object carries.
C1_PrimaryObjectWins ==
    \A i \in Ran :
        LET c == inv[i]
            alone == Resolve(c.resource, Missing)
        IN  c.resource.tag = "object" =>
                /\ c.url = (IF HoldsText(c.resource.url) THEN Some(Ok(c.resource.url.val)) ELSE None)
                /\ FieldsFrom(c, c.resource)
                /\ <<c.url, c.method, c.headers, c.body>>
                       = <<alone.url, alone.method, alone.headers, alone.body>>
                /\ \A k \in Events(c, "parse") : HoldsText(c.resource.url) /\ c.log[k].text = c.resource.url.val

\* A finished call fetch({url: A, method: PUT, ...}, {url: B}) that sent its
\* request to A.
C1_Witness ==
    \E i \in Finished :
        LET c == inv[i]
        IN  /\ c.resource.tag = "object" /\ c.resource.url = Holds(UrlA)
            /\ c.resource.method = Holds("PUT")
            /\ c.args.tag = "object" /\ c.args.url = Holds(UrlB)
            /\ Succeeded(c)
            /\ \E k \in Events(c, "request") : c.log[k].req.uri = UriA

\* C2: when the primary argument is a text T and the secondary argument is an
\* object, the URL candidate is the secondary's `url` text when it holds one
\* and T otherwise, and method, headers and body are the secondary's.
C2_TextThenSecondary ==
    \A i \in Ran :
        LET c == inv[i]
        IN  (c.resource.tag = "string" /\ c.args.tag = "object") =>
                /\ HoldsText(c.args.url) => c.url = Some(Ok(c.args.url.val))
                /\ (~HoldsText(c.args.url) /\ c.resource.conv) => c.url = Some(Ok(c.resource.text))
                /\ FieldsFrom(c, c.args)
                /\ \A k \in Events(c, "parse") :
                       c.log[k].text = (IF HoldsText(c.args.url) THEN c.args.url.val ELSE c.resource.text)

\* A finished call fetch(A, {url: B, ...}) that sent its request to B.
C2_Witness ==
    \E i \in Finished :
        LET c == inv[i]
        IN  /\ c.resource = JsString(UrlA, TRUE)
            /\ c.args.tag = "object" /\ c.args.url = Holds(UrlB)
            /\ Succeeded(c)
            /\ \E k \in Events(c, "request") : c.log[k].req.uri = UriB

\* Neither argument yields a URL candidate: the primary is no text and the
\* options object, if there is one, holds no `url` text.
NoUrlCandidate(c) ==
    /\ c.resource.tag # "string"
    /\ IsSome(OptionsOf(c)) => ~HoldsText(OptionsOf(c).val.url)

\* C3: a call without a URL candidate has parsed nothing, called the gate
\* never and sent nothing at any point, and once its block has run it has
\* failed with the "Missing required url" reference error.
C3_MissingUrl ==
    \A i \in Ran :
        LET c == inv[i]
        IN  NoUrlCandidate(c) =>
                /\ c.log = <<>>
                /\ c.pc \in {"resolved", "done"}
                /\ c.pc = "done" => FailedWith(c, MissingUrlError)

\* A finished call without URL whose method is invalid and whose headers and
\* body are unusable.
C3_Witness ==
    \E i \in Finished :
        LET c == inv[i]
        IN  /\ NoUrlCandidate(c)
            /\ c.resource.tag = "object"
            /\ c.resource.method = Holds("get")
            /\ c.resource.headers = Holds(MalformedHeaders)
            /\ c.resource.body = Holds(UnconvertibleBody)
            /\ FailedWith(c, MissingUrlError)

IsArgumentError(e) ==
    \/ e = MissingUrlError
    \/ (e.kind = "TypeError" /\ e.msg[1] = "Invalid HTTP method: ")
    \/ e = Error("Error", <<"invalid uri character">>)

IsAccessError(e) == e.kind = "AccessError"

\* C4: an invocation that ended with an argument error or with the gate's
\* rejection has no request in its log.
C4_NoRequestOnEarlyError ==
    \A i \in Finished :
        LET c == inv[i]
        IN  (Failed(c) /\ (IsArgumentError(c.outcome.val.err) \/ IsAccessError(c.outcome.val.err)))
                => Events(c, "request") = {}

\* Finished invocations of each kind: invalid method, missing URL,
\* unparseable URL, rejected by the gate.
C4_Witness ==
    /\ \E i \in Finished : Failed(inv[i]) /\ IsAccessError(inv[i].outcome.val.err)
                           /\ Events(inv[i], "gate") # {}
    /\ \E i \in Finished : Failed(inv[i]) /\ IsArgumentError(inv[i].outcome.val.err)

\* C5: the gate is called at most once per invocation, with the URI parsed
\* from the resolved URL text; a request in the log is preceded by exactly
\* one gate call, made with the URI the request goes to.
C5_GateOnceBeforeRequest ==
    \A i \in Ran :
        LET c == inv[i]
        IN  /\ Cardinality(Events(c, "gate")) <= 1
            /\ \A g \in Events(c, "gate") :
                   /\ IsSome(c.url) /\ IsOk(c.url.val)
                   /\ ParseUri(c.url.val.val) = Ok(c.log[g].uri)
            /\ \A r \in Events(c, "request") :
                   /\ Cardinality(Events(c, "gate")) = 1
                   /\ \A g \in Events(c, "gate") : g < r /\ c.log[g].uri = c.log[r].req.uri
                   /\ \A k \in 1..Len(c.log) : k < r => c.log[k].ev \in {"parse", "gate"}

\* A CONNECT request with a body that was gated and then sent.
C5_Witness ==
    \E i \in Ran :
        LET c == inv[i]
        IN  \E r \in Events(c, "request") :
                /\ c.log[r].req.method = HyperMethod("CONNECT")
                /\ c.log[r].req.body = GoodBody.bytes
                /\ Events(c, "gate") # {}

Malformed(list) == IsSome(list) /\ IsErr(list.val)

AllowMessage == "\"LLRT_NET_ALLOW\" env contains an invalid URI: "

DenyMessage == "\"LLRT_NET_DENY\" env contains an invalid URI: "

\* e is the reference error that names a malformed list and carries its
\* parse error text.
IsConfigError(e) ==
    /\ e.kind = "ReferenceError"
    /\ Len(e.msg) = 2
    /\ \/ Malformed(allowList) /\ e.msg = <<AllowMessage, allowList.val.err>>
       \/ Malformed(denyList) /\ e.msg = <<DenyMessage, denyList.val.err>>

\* No invocation has run any code of the closure.
NoClosureRan ==
    \A i \in Calls :
        /\ inv[i].pc \in {"idle", "done"}
        /\ inv[i].client = 0
        /\ inv[i].log = <<>>
        /\ ~Succeeded(inv[i])

\* C6: with a malformed allow or deny list, init (once it has run) has
\* failed with the reference error naming the malformed source and carrying
\* its parse error text; no client is built, `fetch` is not registered and
\* no invocation resolves, gates or dispatches anything.
C6_InitFailsOnMalformedList ==
    (Malformed(allowList) \/ Malformed(denyList)) =>
        /\ clients = 0
        /\ ~registered
        /\ NoClosureRan
        /\ initState # "start" =>
               /\ initState = "failed"
               /\ IsSome(initError)
               /\ IsConfigError(initError.val)

\* init has failed on a malformed deny list alone, and a call was tried.
C6_Witness ==
    /\ Malformed(denyList) /\ ~Malformed(allowList)
    /\ initState = "failed"
    /\ initError = Some(Error("ReferenceError", <<DenyMessage, DenyParseFailure>>))
    /\ \E i \in Calls : inv[i].pc = "done"

UrlParses(c) == IsSome(c.url) /\ IsOk(c.url.val) /\ IsOk(ParseUri(c.url.val.val))

OtherText(obj) == HoldsText(obj.method) /\ obj.method.val \notin ValidMethodTexts /\ obj.method.val # ""

\* C8, as claimed: a valid method text resolves to that method, an absent
\* one to GET, and with any other non-empty text the finished call has
\* failed with the invalid-method error naming the text.
C8_InvalidMethodFailsCall ==
    \A i \in Finished :
        LET c == inv[i]
            o == OptionsOf(c)
        IN  IsSome(o) =>
                /\ PlainMethod(o.val) => c.method = MethodFrom(o.val)
                /\ OtherText(o.val) => FailedWith(c, InvalidMethodError(o.val.method.val))

\* C8, amended: a valid method text resolves to that method, an absent one
\* to GET, and any other non-empty text resolves to the invalid-method error
\* naming the text; the call then fails without reaching the gate, with that
\* error when the URL is there and parses, and with the URL's error
\* otherwise.
C8_MethodResolution ==
    \A i \in Ran :
        LET c == inv[i]
            o == OptionsOf(c)
        IN  IsSome(o) =>
                /\ PlainMethod(o.val) => c.method = MethodFrom(o.val)
                /\ OtherText(o.val) =>
                       /\ c.method = Err(InvalidMethodError(o.val.method.val))
                       /\ Events(c, "gate") \cup Events(c, "request") = {}
                       /\ c.pc \in {"resolved", "done"}
                       /\ c.pc = "done" =>
                              /\ Failed(c)
                              /\ UrlParses(c) => FailedWith(c, InvalidMethodError(o.val.method.val))
                              /\ ~UrlParses(c) => ~FailedWith(c, InvalidMethodError(o.val.method.val))

\* A finished call with method "OPTIONS" and a URL that parses.
C8_Witness ==
    \E i \in Finished :
        LET c == inv[i]
        IN  /\ c.resource.tag = "object"
            /\ c.resource.method = Holds("OPTIONS")
            /\ c.resource.url = Holds(UrlA)
            /\ FailedWith(c, InvalidMethodError("OPTIONS"))

\* C9, as claimed: an empty method text resolves to the invalid-method error
\* whose message carries "{empty}", and a call whose URL parses fails with
\* it.
C9_EmptyMethodPlaceholder ==
    \A i \in Ran :
        LET c == inv[i]
            o == OptionsOf(c)
        IN  (IsSome(o) /\ o.val.method = Holds("")) =>
                /\ c.method = Err(InvalidMethodError("{empty}"))
                /\ (c.pc = "done" /\ UrlParses(c)) => FailedWith(c, InvalidMethodError("{empty}"))

DeferredHeaders(obj) == obj.headers \in {Unreadable, Holds(MalformedHeaders)}

DeferredBody(obj) == obj.body = Holds(UnconvertibleBody)

IsConversionError(e) ==
    \/ e.kind \in {"HeadersError", "BytesError"}
    \/ e = Error("PropertyError", <<"headers">>)

\* The checks the block makes before it uses headers and body all pass.
EarlierChecksPass(c) ==
    /\ UrlParses(c)
    /\ IsOk(c.method)
    /\ IsOk(EnsureUrlAccess(allowList, denyList, ParseUri(c.url.val.val).val))

\* C10: resolution itself raises nothing; a conversion error of headers or
\* body is the invocation's error only after URL, parse, method and gate
\* have passed, and then it is (headers before body); when an earlier check
\* fails, the outcome is not a conversion error.
C10_ConversionErrorsDeferred ==
    \A i \in Ran :
        LET c == inv[i]
            o == OptionsOf(c)
        IN  /\ c.pc = "resolved" => c.outcome = None
            /\ (Failed(c) /\ IsConversionError(c.outcome.val.err)) =>
                   /\ EarlierChecksPass(c)
                   /\ Events(c, "gate") # {}
                   /\ Events(c, "request") = {}
            /\ (c.pc = "done" /\ ~EarlierChecksPass(c)) =>
                   Failed(c) /\ ~IsConversionError(c.outcome.val.err)
            /\ (c.pc = "done" /\ EarlierChecksPass(c) /\ IsSome(o)) =>
                   /\ DeferredHeaders(o.val) =>
                          Failed(c) /\ c.outcome.val.err.kind \in {"HeadersError", "PropertyError"}
                   /\ (DeferredBody(o.val) /\ PlainHeaders(o.val)) =>
                          Failed(c) /\ c.outcome.val.err.kind = "BytesError"

\* A finished call with malformed headers and an unconvertible body whose
\* URL the gate rejected: it reports the rejection.
C10_Witness ==
    \E i \in Finished :
        LET c == inv[i]
        IN  /\ c.resource.tag = "object"
            /\ c.resource.headers = Holds(MalformedHeaders)
            /\ c.resource.body = Holds(UnconvertibleBody)
            /\ Failed(c) /\ IsAccessError(c.outcome.val.err)

----------------------------------------------------------------------------
\* C11: the response handle of a successful invocation carries the method
\* text and the URL text of the request the invocation sent, and the start
\* time read when the call began; that time is never later than the clock,
\* so the elapsed duration is not negative.
C11_ResponseCarriesRequest ==
    \A i \in Ran :
        LET c == inv[i]
        IN  /\ c.start = c.called
            /\ c.start <= clock
            /\ Succeeded(c) =>
                   LET resp == c.outcome.val.val
                   IN  /\ resp.start = c.called
                       /\ resp.start <= clock
                       /\ Events(c, "request") # {}
                       /\ \A r \in Events(c, "request") :
                              /\ resp.method = MethodToString(c.log[r].req.method)
                              /\ ParseUri(resp.url) = Ok(c.log[r].req.uri)
                       /\ \A k \in Events(c, "parse") : resp.url = c.log[k].text

\* fetch(A, {url: B, method: PUT, ..}) called after the clock had advanced
\* and answered later: the handle reports PUT, B and the call's time.
C11_Witness ==
    \E i \in Finished :
        LET c == inv[i]
        IN  /\ Succeeded(c)
            /\ c.resource = JsString(UrlA, TRUE)
            /\ c.outcome.val.val.url = UrlB
            /\ c.outcome.val.val.method = "PUT"
            /\ c.called > 0
            /\ c.outcome.val.val.start = c.called
            /\ c.outcome.val.val.start < clock

TransportError == Error("Error", <<"transport: ", "transport error">>)

\* C12: an invocation sends at most one request and sees at most one end of
\* the exchange; while it awaits, exactly one request is out; a transport
\* failure ends it with the transport error and nothing is sent again; a
\* response handle exists only after its one request was answered.
C12_OneExchange ==
    \A i \in Ran :
        LET c == inv[i]
            sent == Events(c, "request")
            answered == Events(c, "response")
            broken == Events(c, "failure")
        IN  /\ Cardinality(sent) <= 1
            /\ Cardinality(answered \cup broken) <= 1
            /\ c.pc = "inflight" <=> (Cardinality(sent) = 1 /\ answered \cup broken = {})
            /\ broken # {} =>
                   /\ c.pc = "done"
                   /\ FailedWith(c, TransportError)
                   /\ \A b \in broken : b = Len(c.log) /\ \A r \in sent : r < b
            /\ Succeeded(c) <=> answered # {}
            /\ Succeeded(c) =>
                   /\ c.pc = "done"
                   /\ Cardinality(sent) = 1
                   /\ \A a \in answered : a = Len(c.log) /\ \A r \in sent : r < a

\* One invocation ended by a transport failure and one by a response.
C12_Witness ==
    /\ \E i \in Finished : FailedWith(inv[i], TransportError) /\ Events(inv[i], "failure") # {}
    /\ \E i \in Finished : Succeeded(inv[i]) /\ Events(inv[i], "response") # {}

\* Every field the object holds well formed is the resolved one.
Overrides(c, obj) ==
    /\ HoldsText(obj.url) => c.url = Some(Ok(obj.url.val))
    /\ (HoldsText(obj.method) /\ obj.method.val \in ValidMethodTexts) =>
           c.method = Ok(HyperMethod(obj.method.val))
    /\ (HoldsText(obj.headers) /\ obj.headers.val.good) => c.headers = Some(Ok(obj.headers.val.pairs))
    /\ (HoldsText(obj.body) /\ obj.body.val.good) => c.body = Ok(obj.body.val.bytes)

\* C13, as claimed: every field a secondary options object holds is the
\* resolved one, whatever the primary argument is.
C13_SecondaryAlwaysOverrides ==
    \A i \in Ran : inv[i].args.tag = "object" => Overrides(inv[i], inv[i].args)

\* C13, amended: the fields a secondary options object holds are the
\* resolved ones when the primary argument is not an object; when the
\* primary is an object, the resolved fields are the primary's, and a field
\* only the secondary holds stays at its default.
C13_SecondaryOnlyWithoutPrimaryObject ==
    \A i \in Ran :
        LET c == inv[i]
        IN  c.args.tag = "object" =>
                IF c.resource.tag # "object"
                THEN Overrides(c, c.args)
                ELSE /\ Overrides(c, c.resource)
                     /\ c.resource.url.slot = "absent" => c.url = None
                     /\ c.resource.method.slot = "absent" => c.method = Ok(HyperMethod("GET"))
                     /\ c.resource.headers.slot = "absent" => c.headers = None
                     /\ c.resource.body.slot = "absent" => c.body = Ok(EmptyBody)

\* fetch({url: A}, {method: PUT, headers, body}) sent a GET without body and
\* without the secondary's headers.
C13_Witness ==
    \E i \in Finished :
        LET c == inv[i]
        IN  /\ c.resource = JsObject(Holds(UrlA), Absent, Absent, Absent)
            /\ c.args = JsObject(Absent, Holds("PUT"), Holds(GoodHeaders), Holds(GoodBody))
            /\ \E r \in Events(c, "request") :
                   /\ c.log[r].req.method = HyperMethod("GET")
                   /\ c.log[r].req.body = EmptyBody
                   /\ Len(c.log[r].req.headers) = 2

FixedHeaders == <<<<"user-agent", UserAgent>>, <<"accept", "*/*">>>>

\* C14: for fetch(U) with a text U and no second argument, the URL resolves
\* to U, the method to GET, the body to the empty body and there is no
\* header collection; a request it sends is a GET to the URI of U with the
\* two fixed headers alone and no body.
C14_TextAlone ==
    \A i \in Ran :
        LET c == inv[i]
        IN  (c.resource.tag = "string" /\ c.resource.conv /\ c.args = Missing) =>
                /\ c.url = Some(Ok(c.resource.text))
                /\ c.method = Ok(HyperMethod("GET"))
                /\ c.body = Ok(EmptyBody)
                /\ c.headers = None
                /\ \A r \in Events(c, "request") :
                       /\ c.log[r].req.headers = FixedHeaders
                       /\ c.log[r].req.method = HyperMethod("GET")
                       /\ c.log[r].req.body = EmptyBody
                       /\ Ok(c.log[r].req.uri) = ParseUri(c.resource.text)

\* fetch(A) was sent and answered.
C14_Witness ==
    \E i \in Finished :
        LET c == inv[i]
        IN  /\ c.resource = JsString(UrlA, TRUE) /\ c.args = Missing
            /\ Succeeded(c)
            /\ \E r \in Events(c, "request") : c.log[r].req.headers = FixedHeaders

\* The pairs of the header collection the call's options object holds.
GivenPairs(c) ==
    LET o == OptionsOf(c)
    IN  IF IsSome(o) /\ HoldsText(o.val.headers) /\ o.val.headers.val.good
        THEN o.val.headers.val.pairs ELSE <<>>

\* The value a reader that keeps the last entry of a name sees.
LastValue(headers, name) ==
    LET at == {k \in 1..Len(headers) : headers[k][1] = name}
    IN  headers[CHOOSE k \in at : \A j \in at : j <= k][2]

\* C15: the headers of a request are the fixed user-agent, the fixed accept
\* and then the pairs of the given header collection in their order; a name
\* the collection gives again comes after the fixed entry, so its last
\* entry is the collection's.
C15_HeaderOrder ==
    \A i \in Ran :
        LET c == inv[i]
        IN  \A r \in Events(c, "request") :
                LET h == c.log[r].req.headers
                    given == GivenPairs(c)
                IN  /\ h = FixedHeaders \o given
                    /\ h[1] = <<"user-agent", UserAgent>>
                    /\ h[2] = <<"accept", "*/*">>
                    /\ \A k \in 1..Len(given) : LastValue(h, given[k][1]) = LastValue(given, given[k][1])

\* A request whose collection gives x-a and its own user-agent.
C15_Witness ==
    \E i \in Ran :
        LET c == inv[i]
        IN  \E r \in Events(c, "request") :
                /\ GivenPairs(c) = GoodHeaders.pairs
                /\ Len(c.log[r].req.headers) = 4
                /\ LastValue(c.log[r].req.headers, "user-agent") = "custom"

\* C16: a successful init has built exactly one client and a failed or
\* pending one none; every invocation holds a clone of that client and
\* sends its request on it, also while another invocation is in flight; an
\* invocation that failed before its dispatch has sent nothing on it.
C16_OneSharedClient ==
    /\ clients = (IF initState = "ok" THEN 1 ELSE 0)
    /\ \A i \in Ran :
           LET c == inv[i]
           IN  /\ initState = "ok"
               /\ c.client = clients
               /\ \A r \in Events(c, "request") : c.log[r].client = clients
               /\ (c.pc = "done" /\ Events(c, "failure") \cup Events(c, "response") = {}) =>
                      Events(c, "request") = {}

\* Two invocations in flight at once, both on the one client.
C16_Witness ==
    /\ clients = 1
    /\ \E i, j \in Ran :
           /\ i # j
           /\ inv[i].pc = "inflight" /\ inv[j].pc = "inflight"
           /\ \A r \in Events(inv[i], "request") : inv[i].log[r].client = 1
           /\ \A r \in Events(inv[j], "request") : inv[j].log[r].client = 1

\* The URL candidate as the arguments give it: the options object's `url`
\* text, else the primary text as converted, else none.
CandidateOf(c) ==
    LET o == OptionsOf(c)
    IN  IF IsSome(o) /\ HoldsText(o.val.url) THEN Some(Ok(o.val.url.val))
        ELSE IF c.resource.tag = "string"
             THEN Some(IF c.resource.conv THEN Ok(c.resource.text)
                       ELSE Err(Error("FromJsError", <<"string">>)))
             ELSE None

MethodErrorOf(obj) ==
    IF obj.method.slot = "unreadable" THEN Some(Error("PropertyError", <<"method">>))
    ELSE IF HoldsText(obj.method) /\ obj.method.val \notin ValidMethodTexts
         THEN Some(InvalidMethodError(obj.method.val))
         ELSE None

HeadersErrorOf(obj) ==
    IF obj.headers.slot = "unreadable" THEN Some(Error("PropertyError", <<"headers">>))
    ELSE IF HoldsText(obj.headers) /\ ~obj.headers.val.good
         THEN Some(Error("HeadersError", <<"invalid headers">>))
         ELSE None

BodyErrorOf(obj) ==
    IF HoldsText(obj.body) /\ ~obj.body.val.good
    THEN Some(Error("BytesError", <<"invalid body">>)) ELSE None

BuildErrorOf(obj) ==
    IF HoldsText(obj.headers) /\ obj.headers.val.good
       /\ \E k \in 1..Len(obj.headers.val.pairs) : obj.headers.val.pairs[k][1] = "bad name"
    THEN Some(Error("Error", <<"invalid HTTP header name">>)) ELSE None

\* The first of two optional errors.
First(a, b) == IF IsSome(a) THEN a ELSE b

\* The error the fixed order picks before dispatch for the call's arguments
\* and the policy lists, None when nothing fails before dispatch.
ErrorBeforeDispatch(c) ==
    LET o == OptionsOf(c)
        u == CandidateOf(c)
    IN  IF ~IsSome(u) THEN Some(MissingUrlError)
        ELSE IF IsErr(u.val) THEN Some(u.val.err)
        ELSE IF IsErr(ParseUri(u.val.val)) THEN Some(ParseUri(u.val.val).err)
        ELSE LET gate == EnsureUrlAccess(allowList, denyList, ParseUri(u.val.val).val)
                 access == IF IsErr(gate) THEN Some(gate.err) ELSE None
             IN  IF IsSome(o)
                 THEN First(MethodErrorOf(o.val), First(access, First(HeadersErrorOf(o.val),
                          First(BodyErrorOf(o.val), BuildErrorOf(o.val)))))
                 ELSE access

\* C17: an invocation has an outcome exactly when it has ended, and the
\* outcome is the first failure in the order missing URL (or unconverted
\* primary text), unparseable URL, method, gate, headers, body, request
\* build, transport; nothing is sent when a failure precedes dispatch, and
\* the gate is not called when the method is in error.
C17_FirstErrorWins ==
    \A i \in Ran :
        LET c == inv[i]
            o == OptionsOf(c)
            e == ErrorBeforeDispatch(c)
        IN  /\ c.pc = "done" <=> IsSome(c.outcome)
            /\ c.pc = "inflight" => ~IsSome(e)
            /\ (c.pc = "done" /\ IsSome(e)) =>
                   FailedWith(c, e.val) /\ Events(c, "request") = {}
            /\ (c.pc = "done" /\ ~IsSome(e)) =>
                   /\ Succeeded(c) \/ FailedWith(c, TransportError)
                   /\ Events(c, "request") # {}
            /\ (IsSome(o) /\ IsSome(MethodErrorOf(o.val))) => Events(c, "gate") = {}

\* A finished call with a URL the gate rejects, an invalid method, malformed
\* headers and an unconvertible body: it reports the method and the gate
\* was not called.
C17_Witness ==
    \E i \in Finished :
        LET c == inv[i]
        IN  /\ c.resource = JsObject(Holds(UrlB), Holds("OPTIONS"), Holds(MalformedHeaders),
                                     Holds(UnconvertibleBody))
            /\ IsErr(EnsureUrlAccess(allowList, denyList, UriB))
            /\ FailedWith(c, InvalidMethodError("OPTIONS"))
            /\ Events(c, "gate") = {}

\* The primary argument is neither text nor an object.
OtherPrimary(c) == c.resource.tag \notin {"string", "object"}

\* C18: a primary argument that is neither text nor an object gives no URL
\* candidate and no options; an object secondary is then resolved exactly as
\* if it were the primary object; with any other secondary the defaults stay
\* and the call fails for its missing URL.
C18_OtherPrimary ==
    \A i \in Ran :
        LET c == inv[i]
            asPrimary == Resolve(c.args, Missing)
        IN  OtherPrimary(c) =>
                /\ GetUrlOptions(c.resource) = <<None, None>>
                /\ c.args.tag = "object" =>
                       /\ c.url = (IF HoldsText(c.args.url) THEN Some(Ok(c.args.url.val)) ELSE None)
                       /\ FieldsFrom(c, c.args)
                       /\ <<c.url, c.method, c.headers, c.body>>
                              = <<asPrimary.url, asPrimary.method, asPrimary.headers, asPrimary.body>>
                       /\ \A k \in Events(c, "parse") : c.log[k].text = c.args.url.val
                /\ c.args.tag # "object" =>
                       /\ c.url = None
                       /\ c.method = Ok(HyperMethod("GET"))
                       /\ c.headers = None
                       /\ c.body = Ok(EmptyBody)
                       /\ c.pc = "done" => FailedWith(c, MissingUrlError)

\* A finished call fetch(1, {url: B, method: PUT, headers, body}) whose PUT
\* request with that body went to B.
C18_Witness ==
    \E i \in Finished :
        LET c == inv[i]
        IN  /\ c.resource = JsNumber
            /\ c.args = JsObject(Holds(UrlB), Holds("PUT"), Holds(GoodHeaders), Holds(GoodBody))
            /\ Succeeded(c)
            /\ \E k \in Events(c, "request") :
                   /\ c.log[k].req.uri = UriB
                   /\ c.log[k].req.method = HyperMethod("PUT")
                   /\ c.log[k].req.body = GoodBody.bytes

\* C19: of the effective options object, an unreadable `url` leaves the URL
\* candidate as the primary gave it and an unreadable `body` leaves the body
\* empty; an unreadable `method` is the method's error, nothing is sent and
\* the call fails, with that error when the URL parses; an unreadable or
\* unconvertible `headers` is kept as the headers' error, which is the
\* call's error once URL, method and gate have passed.
C19_ReadFailures ==
    \A i \in Ran :
        LET c == inv[i]
            o == OptionsOf(c)
        IN  IsSome(o) =>
                /\ o.val.url = Unreadable => c.url = GetUrlOptions(c.resource)[1]
                /\ o.val.body = Unreadable => c.body = Ok(EmptyBody)
                /\ o.val.method = Unreadable =>
                       /\ c.method = Err(Error("PropertyError", <<"method">>))
                       /\ Events(c, "request") = {}
                       /\ c.pc # "inflight"
                       /\ c.pc = "done" =>
                              /\ Failed(c)
                              /\ UrlParses(c) => FailedWith(c, Error("PropertyError", <<"method">>))
                /\ o.val.headers = Unreadable =>
                       c.headers = Some(Err(Error("PropertyError", <<"headers">>)))
                /\ o.val.headers = Holds(MalformedHeaders) =>
                       c.headers = Some(Err(Error("HeadersError", <<"invalid headers">>)))
                /\ (DeferredHeaders(o.val) /\ c.pc = "done") =>
                       IF EarlierChecksPass(c) THEN FailedWith(c, c.headers.val.err)
                       ELSE ~FailedWith(c, c.headers.val.err)

\* A finished call fetch(A, {url, body unreadable}) that succeeded with an
\* empty body sent to A.
C19_Witness ==
    \E i \in Finished :
        LET c == inv[i]
        IN  /\ c.resource = JsString(UrlA, TRUE)
            /\ c.args.tag = "object"
            /\ c.args.url = Unreadable /\ c.args.body = Unreadable
            /\ Succeeded(c)
            /\ \E k \in Events(c, "request") :
                   c.log[k].req.uri = UriA /\ c.log[k].req.body = EmptyBody

====
